---------------------------- MODULE Spec2Model ----------------------------
(***************************************************************************)
(* Model of coalib/collecting/Importers.py (object discovery over python   *)
(* source files) and of get_severity / parse_output of                     *)
(* coalib/bearlib/abstractions/ExternalBearWrap.py.                        *)
(*                                                                         *)
(* Python objects are modelled by their identity (a string); what          *)
(* introspection reports about an object (inspect.isclass, type(),         *)
(* inspect.getmro, inspect.getfile, hasattr) is a fixed table over a small *)
(* universe of objects, laid out like the plugin files a caller scans.     *)
(***************************************************************************)
EXTENDS Integers, Sequences, FiniteSets, TLC

VARIABLES
    platform,     \* platform.system() of the run
    file_paths,   \* keys of the file_paths dict, in the dict's order
    names,        \* filter arguments of iimport_objects, after _to_list
    types,
    supers,
    attributes,
    local,
    verbose,
    pc,           \* position of the iimport_objects generator
    ui,           \* position of the loop over file_paths.items()
    mi,           \* position of the loop over inspect.getmembers(module)
    module,       \* file the loaded module object was executed from
    yielded,      \* yield_once's set of items already yielded
    out,          \* objects the consumer has received, in order
    suppressed,   \* suppress_stdout() is in effect
    error,        \* exception that left the generator
    loads,        \* history: calls of _import_module
    evaluated,    \* history: members the filter condition was evaluated on
    call,         \* pure functions: the call made
    ret           \* pure functions: what the call returned or raised

vars == <<platform, file_paths, names, types, supers, attributes, local,
          verbose, pc, ui, mi, module, yielded, out, suppressed, error,
          loads, evaluated, call, ret>>

inputs == <<platform, file_paths, names, types, supers, attributes, local,
            verbose>>

discovery == <<pc, ui, mi, module, yielded, out, suppressed, error, loads,
               evaluated>>

----------------------------------------------------------------------------
(* Bounds *)

MaxUnits == 3       \* most source units in one discovery call

MaxResults == 2     \* most records in one collaborator response

MaxSupers == 2      \* most entries of supers in a call of _is_subclass

----------------------------------------------------------------------------
(* The scanned world: files on disk, their top-level members, and what     *)
(* introspection says about every object.                                  *)

NoFile == "<no source>"

Platforms == {"Linux", "Windows"}

\* files present on disk, by their on-disk spelling
Disk == {"f1", "f2", "bad"}

\* paths a caller may pass; "F1" is "f1" spelled in another case, "gone"
\* names no file
Paths == {"f1", "F1", "f2", "bad", "gone"}

\* str.lower() on the paths of the model
Lower(p) == IF p = "F1" THEN "f1" ELSE p

\* f1:  class Foo: run = ...; ALIAS = Foo; NUM = 5; TUP = (1, 2);
\*      def helper(): ...
\* f2:  from f1 import Foo, helper; class Bar(Foo): ...; inst = Bar()
\* bad: raises at import time
UserClasses == {"cFoo", "cBar"}

BuiltinClasses == {"object", "type", "int", "tuple", "function"}

Classes == UserClasses \cup BuiltinClasses

Objects == {"cFoo", "cBar", "fHelper", "vNum", "vTup", "iBar"}

AttributeNames == {"run", "__name__"}

\* inspect.isclass(obj)
isclass(obj) == obj \in Classes

\* inspect.getmro(cls)
getmro(cls) ==
    CASE cls = "cFoo"   -> <<"cFoo", "object">>
      [] cls = "cBar"   -> <<"cBar", "cFoo", "object">>
      [] cls = "object" -> <<"object">>
      [] OTHER          -> <<cls, "object">>

\* type(obj)
TypeOf(obj) ==
    CASE obj \in Classes  -> "type"
      [] obj = "fHelper"  -> "function"
      [] obj = "vNum"     -> "int"
      [] obj = "vTup"     -> "tuple"
      [] obj = "iBar"     -> "cBar"

\* inspect.getfile(obj): the file of a class or function, a TypeError
\* (NoFile) for builtins and for plain values and instances
getfile(obj) ==
    CASE obj = "cFoo"    -> "f1"
      [] obj = "cBar"    -> "f2"
      [] obj = "fHelper" -> "f1"
      [] OTHER           -> NoFile

\* hasattr(obj, attribute_name)
hasattr(obj, attribute_name) ==
    \/ attribute_name = "run" /\ obj \in {"cFoo", "cBar", "iBar"}
    \/ attribute_name = "__name__" /\ (obj \in Classes \/ obj = "fHelper")

\* inspect.getmembers(module): (name, value) pairs sorted by name
getmembers(file) ==
    CASE file = "f1" -> << <<"ALIAS", "cFoo">>, <<"Foo", "cFoo">>,
                           <<"NUM", "vNum">>, <<"TUP", "vTup">>,
                           <<"helper", "fHelper">> >>
      [] file = "f2" -> << <<"Bar", "cBar">>, <<"Foo", "cFoo">>,
                           <<"helper", "fHelper">>, <<"inst", "iBar">> >>
      [] OTHER       -> << >>

\* a module whose top-level code raises
RaisesOnLoad(file) == file = "bad"

Range(s) == {s[i] : i \in 1..Len(s)}

IndexOf(s, x) == CHOOSE i \in 1..Len(s) : s[i] = x

----------------------------------------------------------------------------
(* coalib/collecting/Importers.py: helpers *)

\* os.path.exists(file_path): the file system of Windows ignores case
exists(plat, file_path) ==
    IF plat = "Windows"
    THEN \E d \in Disk : Lower(d) = Lower(file_path)
    ELSE file_path \in Disk

_windows_get_case_sensitive_filename(path) ==
    IF \E d \in Disk : Lower(d) = Lower(path)
    THEN CHOOSE d \in Disk : Lower(d) = Lower(path)
    ELSE "FileNotFoundError"

\* _import_module without the check of os.path.exists: the loader fails on
\* the missing file with its own error
_import_module_unchecked(plat, file_path) ==
    IF ~exists(plat, file_path)
    THEN [error |-> "FileNotFoundError", module |-> NoFile]
    ELSE LET path == IF plat = "Windows"
                     THEN _windows_get_case_sensitive_filename(file_path)
                     ELSE file_path
         IN  IF RaisesOnLoad(path)
             THEN [error |-> "Exception", module |-> NoFile]
             ELSE [error |-> "none", module |-> path]

\* _import_module: [error, module]; module is the file the module object
\* was executed from
_import_module(plat, file_path) ==
    IF ~exists(plat, file_path)
    THEN [error |-> "ImportError", module |-> NoFile]
    ELSE LET path == IF plat = "Windows"
                     THEN _windows_get_case_sensitive_filename(file_path)
                     ELSE file_path
         IN  IF RaisesOnLoad(path)
             THEN [error |-> "Exception", module |-> NoFile]
             ELSE [error |-> "none", module |-> path]

\* issubclass(test_class, superclass): "TypeError" when an argument is no
\* class
issubclass(test_class, superclass) ==
    IF ~isclass(test_class) \/ ~isclass(superclass)
    THEN "TypeError"
    ELSE IF superclass \in Range(getmro(test_class)) THEN "True" ELSE "False"

\* isinstance(obj, cls)
isinstance(obj, cls) == cls \in Range(getmro(TypeOf(obj)))

RECURSIVE _is_subclass_unguarded(_, _)
\* _is_subclass without its try/except
_is_subclass_unguarded(test_class, superclasses) ==
    IF superclasses = << >>
    THEN "False"
    ELSE LET r == issubclass(test_class, Head(superclasses))
         IN  IF r = "False"
             THEN _is_subclass_unguarded(test_class, Tail(superclasses))
             ELSE r

RECURSIVE _is_subclass(_, _)
\* "True", "False", or the exception that leaves the function
_is_subclass(test_class, superclasses) ==
    IF superclasses = << >>
    THEN "False"
    ELSE IF issubclass(test_class, Head(superclasses)) = "True"
         THEN "True"
         ELSE _is_subclass(test_class, Tail(superclasses))

_has_all(obj, attribute_names) ==
    \A attribute_name \in attribute_names : hasattr(obj, attribute_name)

object_defined_in(plat, obj, file_path) ==
    LET source == getfile(obj)
    IN  IF source = NoFile
        THEN FALSE
        ELSE \/ plat = "Windows" /\ Lower(source) = Lower(file_path)
             \/ source = file_path

\* _is_defined_in looking at the class only, not at its bases
_is_defined_in_own(plat, obj, file_path) ==
    object_defined_in(plat, obj, file_path)

_is_defined_in(plat, obj, file_path) ==
    IF ~isclass(obj)
    THEN object_defined_in(plat, obj, file_path)
    ELSE \E k \in 1..Len(getmro(obj)) :
             object_defined_in(plat, getmro(obj)[k], file_path)


----------------------------------------------------------------------------
(* coalib/collecting/Importers.py: _iimport_objects and iimport_objects    *)

\* the condition under which _iimport_objects returns at once
ShortCircuit_paths_only(fp, n, t, s, a) == fp = << >>

ShortCircuit(fp, n, t, s, a) ==
    ~(fp # << >> /\ (n # {} \/ t # {} \/ s # << >> \/ a # {}))

\* file_paths.items(): the dict's keys in its order
UnitOrder_reversed(fp) == [i \in 1..Len(fp) |-> fp[Len(fp) + 1 - i]]

UnitOrder(fp) == fp

NamesDim(n, obj_name) == n = {} \/ obj_name \in n

\* the types dimension as the code evaluates it
TypesDim(t, obj) == t = {} \/ isinstance(obj, "tuple")

SupersDim(s, obj) == s = << >> \/ _is_subclass(obj, s) = "True"

AttributesDim(a, obj) == a = {} \/ _has_all(obj, a)

LocalDim(plat, l, obj, file_path) ==
    l = FALSE \/ _is_defined_in(plat, obj, file_path)

\* the condition of the if statement in the loop over the members
Matches(plat, n, t, s, a, l, obj_name, obj, file_path) ==
    /\ NamesDim(n, obj_name)
    /\ TypesDim(t, obj)
    /\ SupersDim(s, obj)
    /\ AttributesDim(a, obj)
    /\ LocalDim(plat, l, obj, file_path)

\* yield_once: an item is passed on when it was not yielded before
yield_once(item, seen) == item \notin seen

\* _iimport_objects without its decorator
_iimport_objects_undecorated(item, seen) == TRUE

\* whether the decorated _iimport_objects passes on what its body yields
_iimport_objects_yields(item, seen) == yield_once(item, seen)

\* ExitStack.__enter__ and the if statement on verbose: the value of
\* suppressed while the loop runs
EnterStack(v) == v

\* suppress_stdout() entered without the with block: nothing leaves it
ExitStack_leaks(s) == s

\* ExitStack.__exit__: the contexts entered are left
ExitStack(s) == FALSE

\* where a failed load leaves the generator when the error is swallowed
AfterLoadError_skip(r) == "next_unit"

\* where the result of _import_module leaves the generator
AfterLoadError(r) == "raised"

ResultRecords ==
    {[message |-> "m", line |-> 1]} \cup
    {[message |-> "m", line |-> 1, severity |-> s] :
        s \in {"MAJOR", "NORMAL", "INFO", "Info", "normal", ""}}

UnitLists ==
    {fp \in UNION {[1..k -> Paths] : k \in 0..MaxUnits} :
        \A i, j \in 1..Len(fp) : fp[i] = fp[j] => i = j}

Idle == [fn |-> "none"]

Init ==
    /\ platform \in Platforms
    /\ file_paths \in UnitLists
    /\ names \in {{}, {"Foo", "helper"}}
    /\ types \in {{}, {"int"}, {"tuple"}}
    /\ supers \in {<< >>, <<"cFoo">>}
    /\ attributes \in {{}, {"run"}}
    /\ local \in BOOLEAN
    /\ verbose \in BOOLEAN
    /\ pc = "created"
    /\ ui = 0
    /\ mi = 0
    /\ module = NoFile
    /\ yielded = {}
    /\ out = << >>
    /\ suppressed = FALSE
    /\ error = "none"
    /\ loads = << >>
    /\ evaluated = << >>
    /\ call = Idle
    /\ ret = "none"

\* first next(): the with block is entered, suppress_stdout() with it
Enter ==
    /\ pc = "created"
    /\ suppressed' = EnterStack(verbose)
    /\ pc' = "entered"
    /\ UNCHANGED <<inputs, ui, mi, module, yielded, out, error, loads,
                   evaluated, call, ret>>

\* _iimport_objects returns before its loop
Return ==
    /\ pc = "entered"
    /\ ShortCircuit(file_paths, names, types, supers, attributes)
    /\ pc' = "done"
    /\ suppressed' = ExitStack(suppressed)
    /\ UNCHANGED <<inputs, ui, mi, module, yielded, out, error, loads,
                   evaluated, call, ret>>

\* _iimport_objects starts its loop over the files
BeginLoop ==
    /\ pc = "entered"
    /\ ~ShortCircuit(file_paths, names, types, supers, attributes)
    /\ pc' = "load"
    /\ ui' = 1
    /\ UNCHANGED <<inputs, mi, module, yielded, out, suppressed, error,
                   loads, evaluated, call, ret>>

\* module = _import_module(file_path, base_path)
LoadUnit ==
    /\ pc = "load"
    /\ ui <= Len(file_paths)
    /\ LET file_path == UnitOrder(file_paths)[ui]
           r == _import_module(platform, file_path)
       IN  /\ loads' = Append(loads, [file_path |-> file_path,
                                       suppressed |-> suppressed,
                                       error |-> r.error])
           /\ IF r.error = "none"
              THEN /\ module' = r.module
                   /\ mi' = 1
                   /\ pc' = "members"
                   /\ UNCHANGED <<ui, error, suppressed>>
              ELSE IF AfterLoadError(r) = "raised"
                   THEN /\ error' = r.error
                        /\ pc' = "raised"
                        /\ suppressed' = ExitStack(suppressed)
                        /\ UNCHANGED <<ui, mi, module>>
                   ELSE /\ ui' = ui + 1
                        /\ UNCHANGED <<pc, mi, module, error, suppressed>>
    /\ UNCHANGED <<inputs, yielded, out, evaluated, call, ret>>

\* one pass of the loop over inspect.getmembers(module)
EvalMember ==
    /\ pc = "members"
    /\ mi <= Len(getmembers(module))
    /\ LET file_path == UnitOrder(file_paths)[ui]
           obj_name == getmembers(module)[mi][1]
           obj == getmembers(module)[mi][2]
       IN  /\ evaluated' = Append(evaluated, [file_path |-> file_path,
                                               member |-> mi])
           /\ mi' = mi + 1
           /\ IF /\ Matches(platform, names, types, supers, attributes,
                            local, obj_name, obj, file_path)
                 /\ _iimport_objects_yields(obj, yielded)
              THEN /\ yielded' = yielded \cup {obj}
                   /\ out' = Append(out, obj)
                   /\ pc' = "yielded"
              ELSE UNCHANGED <<yielded, out, pc>>
    /\ UNCHANGED <<inputs, ui, module, suppressed, error, loads, call, ret>>

\* the consumer asks for the next object
Resume ==
    /\ pc = "yielded"
    /\ pc' = "members"
    /\ UNCHANGED <<inputs, ui, mi, module, yielded, out, suppressed, error,
                   loads, evaluated, call, ret>>

\* the members of the module are exhausted
NextUnit ==
    /\ pc = "members"
    /\ mi > Len(getmembers(module))
    /\ ui' = ui + 1
    /\ pc' = "load"
    /\ UNCHANGED <<inputs, mi, module, yielded, out, suppressed, error,
                   loads, evaluated, call, ret>>

\* the files are exhausted: the generators end and the with block is left
Exhausted ==
    /\ pc = "load"
    /\ ui > Len(file_paths)
    /\ pc' = "done"
    /\ suppressed' = ExitStack(suppressed)
    /\ UNCHANGED <<inputs, ui, mi, module, yielded, out, error, loads,
                   evaluated, call, ret>>

\* the consumer stops early: closing the generator leaves the with block
Close ==
    /\ pc \in {"created", "yielded"}
    /\ pc' = "closed"
    /\ suppressed' = IF pc = "created" THEN suppressed
                     ELSE ExitStack(suppressed)
    /\ UNCHANGED <<inputs, ui, mi, module, yielded, out, error, loads,
                   evaluated, call, ret>>

Next ==
    \/ Enter
    \/ Return
    \/ BeginLoop
    \/ LoadUnit
    \/ EvalMember
    \/ Resume
    \/ NextUnit
    \/ Exhausted
    \/ Close

Spec == Init /\ [][Next]_vars

----------------------------------------------------------------------------
(* coalib/bearlib/abstractions/ExternalBearWrap.py *)

\* get_severity taking every unknown severity for NORMAL
get_severity_lenient(result) ==
    IF "severity" \notin DOMAIN result
    THEN "RESULT_SEVERITY.NORMAL"
    ELSE CASE result["severity"] = "MAJOR" -> "RESULT_SEVERITY.MAJOR"
           [] result["severity"] = "INFO"  -> "RESULT_SEVERITY.INFO"
           [] OTHER                        -> "RESULT_SEVERITY.NORMAL"

\* the member of RESULT_SEVERITY returned, or the exception raised
get_severity(result) ==
    IF "severity" \notin DOMAIN result \/ result["severity"] = "NORMAL"
    THEN "RESULT_SEVERITY.NORMAL"
    ELSE IF result["severity"] = "MAJOR"
         THEN "RESULT_SEVERITY.MAJOR"
         ELSE IF result["severity"] = "INFO"
              THEN "RESULT_SEVERITY.INFO"
              ELSE "ValueError"

RECURSIVE parse_output(_)
\* the loop of parse_output over the parsed response: the severities of the
\* Result objects yielded, and the exception that ended the generator
parse_output(output) ==
    IF output = << >>
    THEN [results |-> << >>, error |-> "none"]
    ELSE LET severity == get_severity(Head(output))
         IN  IF severity = "ValueError"
             THEN [results |-> << >>, error |-> "ValueError"]
             ELSE LET rest == parse_output(Tail(output))
                  IN  [results |-> <<severity>> \o rest.results,
                       error |-> rest.error]

----------------------------------------------------------------------------
(* The functions on their own: every call with arguments from small sets   *)

CallObjects == Objects \cup Classes

SuperEntries == {"cFoo", "cBar", "object", "vNum"}

SuperLists == UNION {[1..k -> SuperEntries] : k \in 0..MaxSupers}

Responses == UNION {[1..k -> ResultRecords] : k \in 0..MaxResults}

InitFn ==
    /\ platform = "Linux"
    /\ file_paths = << >>
    /\ names = {}
    /\ types = {}
    /\ supers = << >>
    /\ attributes = {}
    /\ local = FALSE
    /\ verbose = FALSE
    /\ pc = "created"
    /\ ui = 0
    /\ mi = 0
    /\ module = NoFile
    /\ yielded = {}
    /\ out = << >>
    /\ suppressed = FALSE
    /\ error = "none"
    /\ loads = << >>
    /\ evaluated = << >>
    /\ call = Idle
    /\ ret = "none"

Call_is_subclass ==
    /\ \E test_class \in CallObjects, superclasses \in SuperLists :
           /\ call' = [fn |-> "_is_subclass", test_class |-> test_class,
                       superclasses |-> superclasses]
           /\ ret' = _is_subclass(test_class, superclasses)
    /\ UNCHANGED <<inputs, discovery>>

Call_is_defined_in ==
    /\ \E plat \in Platforms, obj \in CallObjects, file_path \in Paths :
           /\ call' = [fn |-> "_is_defined_in", plat |-> plat, obj |-> obj,
                       file_path |-> file_path]
           /\ ret' = _is_defined_in(plat, obj, file_path)
    /\ UNCHANGED <<inputs, discovery>>

Call_get_severity ==
    /\ \E result \in ResultRecords :
           /\ call' = [fn |-> "get_severity", result |-> result]
           /\ ret' = get_severity(result)
    /\ UNCHANGED <<inputs, discovery>>

Call_parse_output ==
    /\ \E output \in Responses :
           /\ call' = [fn |-> "parse_output", output |-> output]
           /\ ret' = parse_output(output)
    /\ UNCHANGED <<inputs, discovery>>

NextFn ==
    \/ Call_is_subclass
    \/ Call_is_defined_in
    \/ Call_get_severity
    \/ Call_parse_output

SpecFn == InitFn /\ [][NextFn]_vars

----------------------------------------------------------------------------
(* Vocabulary of the properties, stated on the scanned world itself        *)

\* the path names a file that loads
Loadable(plat, p) == p \in {"f1", "f2"} \/ (plat = "Windows" /\ p = "F1")

\* the path names no file
Missing(plat, p) == p = "gone" \/ (plat = "Linux" /\ p = "F1")

\* the members of the unit at position u of the caller's order
UnitMembers(u) ==
    IF Loadable(platform, file_paths[u])
    THEN getmembers(Lower(file_paths[u]))
    ELSE << >>

\* (unit, member) positions of the call, in the caller's order
Positions ==
    UNION {{<<u, m>> : m \in 1..Len(UnitMembers(u))} :
              u \in 1..Len(file_paths)}

FilterGiven ==
    names # {} \/ types # {} \/ supers # << >> \/ attributes # {}

\* positions where obj is a member that fulfils the filter condition
MatchingPositions(obj) ==
    {p \in Positions :
        /\ UnitMembers(p[1])[p[2]][2] = obj
        /\ Matches(platform, names, types, supers, attributes, local,
                   UnitMembers(p[1])[p[2]][1], obj, file_paths[p[1]])}

LexLess(p, q) == p[1] < q[1] \/ (p[1] = q[1] /\ p[2] < q[2])

FirstMatch(obj) ==
    CHOOSE p \in MatchingPositions(obj) :
        \A q \in MatchingPositions(obj) : p = q \/ LexLess(p, q)

Occurrences(obj) == {i \in 1..Len(out) : out[i] = obj}

UnitIndex(p) == IndexOf(file_paths, p)

----------------------------------------------------------------------------
(* Properties *)

\* C1: within one discovery call no object is yielded twice, and once the
\* call has run to its end every object that is a matching member of a
\* unit (under a filter that names at least one dimension) is in the
\* result exactly once, however many units or names it matches under.
C1_YieldedOnce ==
    /\ \A obj \in Objects : Cardinality(Occurrences(obj)) <= 1
    /\ (pc = "done" /\ FilterGiven) =>
           \A obj \in Objects :
               MatchingPositions(obj) # {} =>
                   Cardinality(Occurrences(obj)) = 1

\* C1 witness: a finished call in which one object matched in two units
\* and another under two names of one unit
C1_Witness ==
    /\ pc = "done"
    /\ \E obj \in Range(out) :
           \E p, q \in MatchingPositions(obj) : p[1] # q[1]
    /\ \E obj \in Range(out) :
           \E p, q \in MatchingPositions(obj) : p[1] = q[1] /\ p[2] # q[2]

\* C2: with no source unit, or with names, types, ancestors and attributes
\* all empty, the call loads nothing, evaluates nothing, yields nothing and
\* raises nothing, whatever local is.
C2_ShortCircuit ==
    (file_paths = << >> \/ ~FilterGiven) =>
        /\ out = << >>
        /\ loads = << >>
        /\ evaluated = << >>
        /\ error = "none"
        /\ pc \in {"created", "entered", "done", "closed"}

\* C2 witness: a finished call over units with members and local set, whose
\* filter has every dimension empty
C2_Witness ==
    /\ pc = "done"
    /\ ~FilterGiven
    /\ local
    /\ Positions # {}

\* C3: every unit is loaded with standard output suppressed when verbose
\* is false, and with no suppression when verbose is true.
C3_VerboseControlsSuppression ==
    \A k \in 1..Len(loads) : loads[k].suppressed = ~verbose

\* C4: with types non-empty, every object yielded has its runtime type in
\* types, and a finished call has yielded every member whose type is in
\* types and that passes the other dimensions.
C4_TypesDimension ==
    types # {} =>
        /\ \A i \in 1..Len(out) : TypeOf(out[i]) \in types
        /\ pc = "done" =>
               \A p \in Positions :
                   LET obj_name == UnitMembers(p[1])[p[2]][1]
                       obj == UnitMembers(p[1])[p[2]][2]
                   IN  (/\ TypeOf(obj) \in types
                        /\ NamesDim(names, obj_name)
                        /\ SupersDim(supers, obj)
                        /\ AttributesDim(attributes, obj)
                        /\ LocalDim(platform, local, obj, file_paths[p[1]]))
                       => obj \in Range(out)

\* the class relations the properties speak of
SubclassOf(obj, cls) ==
    isclass(obj) /\ isclass(cls) /\ cls \in Range(getmro(obj))

InstanceOf(obj, cls) ==
    isclass(cls) /\ cls \in Range(getmro(TypeOf(obj)))

\* C5 as stated: with ancestors non-empty, an object passes the ancestors
\* dimension iff it is a subclass or an instance of one of them, and the
\* check does not raise.
C5_SubclassOrInstance ==
    (call.fn = "_is_subclass" /\ call.superclasses # << >>) =>
        /\ ret \in {"True", "False"}
        /\ SupersDim(call.superclasses, call.test_class) <=>
               \E cls \in Range(call.superclasses) :
                   \/ SubclassOf(call.test_class, cls)
                   \/ InstanceOf(call.test_class, cls)

\* C5 amended: with ancestors non-empty, an object passes the ancestors
\* dimension iff it is itself a class and a subclass of one of them; the
\* check does not raise, and an object that is no class fails it, also
\* when it is an instance of one of the ancestors.
C5_SubclassOnly ==
    (call.fn = "_is_subclass" /\ call.superclasses # << >>) =>
        /\ ret \in {"True", "False"}
        /\ SupersDim(call.superclasses, call.test_class) <=>
               \E cls \in Range(call.superclasses) :
                   SubclassOf(call.test_class, cls)
        /\ ~isclass(call.test_class) => ret = "False"

\* C5 witness: an instance of a subclass of the ancestor was checked and
\* failed
C5_Witness ==
    /\ call.fn = "_is_subclass"
    /\ call.test_class = "iBar"
    /\ call.superclasses = <<"cFoo">>
    /\ ret = "False"

\* the source location of obj is file_path, as the platform compares paths
SourceIs(plat, obj, file_path) ==
    /\ getfile(obj) # NoFile
    /\ \/ getfile(obj) = file_path
       \/ plat = "Windows" /\ Lower(getfile(obj)) = Lower(file_path)

\* C6: defined_in is true of an object that is no class iff its source
\* location is file_path (never for an object without source location),
\* and of a class iff the class or a class of its linearized ancestor
\* chain has source location file_path.
C6_AncestryInclusive ==
    call.fn = "_is_defined_in" =>
        ret = IF isclass(call.obj)
              THEN \E cls \in Range(getmro(call.obj)) :
                       SourceIs(call.plat, cls, call.file_path)
              ELSE SourceIs(call.plat, call.obj, call.file_path)

\* C6 witness: a subclass defined in another file of a base defined in
\* file_path counts as defined in file_path
C6_Witness ==
    /\ call.fn = "_is_defined_in"
    /\ call.obj = "cBar"
    /\ call.file_path = "f1"
    /\ getfile("cBar") # "f1"
    /\ ret = TRUE

\* C7: the objects are yielded in the order of their first matching
\* occurrence, by position of the unit in the caller's order and then by
\* position of the member in the unit.
C7_Order ==
    \A i, j \in 1..Len(out) :
        i < j =>
            /\ MatchingPositions(out[i]) # {}
            /\ MatchingPositions(out[j]) # {}
            /\ LexLess(FirstMatch(out[i]), FirstMatch(out[j]))

\* C7 witness: objects of two units were yielded, one of them an object
\* whose first occurrence did not match
C7_Witness ==
    /\ \E i, j \in 1..Len(out) :
           FirstMatch(out[i])[1] < FirstMatch(out[j])[1]
    /\ \E i \in 1..Len(out) :
           \E p \in Positions :
               /\ UnitMembers(p[1])[p[2]][2] = out[i]
               /\ LexLess(p, FirstMatch(out[i]))

\* C8: a unit that fails to load ends the call: its error leaves the
\* generator (ImportError for a missing file, the unit's own exception
\* otherwise), it is the last unit loaded, and no member of a later unit
\* is ever evaluated or yielded.
C8_LoadErrorTerminal ==
    \A k \in 1..Len(loads) :
        ~Loadable(platform, loads[k].file_path) =>
            /\ k = Len(loads)
            /\ pc = "raised"
            /\ error = IF Missing(platform, loads[k].file_path)
                       THEN "ImportError" ELSE "Exception"
            /\ \A e \in Range(evaluated) :
                   UnitIndex(e.file_path) < UnitIndex(loads[k].file_path)
            /\ Len(out) <= Len(evaluated)

\* C8 witness: a unit failed to load after objects of an earlier unit were
\* yielded, with a unit still to come
C8_Witness ==
    /\ pc = "raised"
    /\ error = "Exception"
    /\ out # << >>
    /\ Len(loads) < Len(file_paths)

\* C9 as stated: in a call whose units include a missing file, the
\* predicate is evaluated on no candidate before the not-found error.
C9_NoEvaluationAtAll ==
    (\E u \in 1..Len(file_paths) : Missing(platform, file_paths[u])) =>
        evaluated = << >>

\* C9 amended: loading a missing file raises the not-found error before the
\* predicate is evaluated on any member of that unit or of a later one;
\* members of the units before it may have been evaluated and yielded.
C9_NotFoundBeforeEvaluation ==
    \A u \in 1..Len(file_paths) :
        Missing(platform, file_paths[u]) =>
            /\ \A e \in Range(evaluated) : UnitIndex(e.file_path) < u
            /\ (\E k \in 1..Len(loads) : loads[k].file_path = file_paths[u])
                   => (pc = "raised" /\ error = "ImportError")

\* C9 witness: the not-found error was raised on the second unit, after
\* members of the first had been evaluated
C9_Witness ==
    /\ pc = "raised"
    /\ error = "ImportError"
    /\ evaluated # << >>
    /\ Missing(platform, file_paths[Len(loads)])

\* C10: get_severity returns MAJOR, NORMAL and INFO for the literals of
\* these names, NORMAL for a record without severity, and raises
\* ValueError for every other value; the ValueError ends parse_output.
C10_Severity ==
    /\ call.fn = "get_severity" =>
           ret = IF "severity" \notin DOMAIN call.result
                 THEN "RESULT_SEVERITY.NORMAL"
                 ELSE CASE call.result.severity = "MAJOR"
                             -> "RESULT_SEVERITY.MAJOR"
                        [] call.result.severity = "NORMAL"
                             -> "RESULT_SEVERITY.NORMAL"
                        [] call.result.severity = "INFO"
                             -> "RESULT_SEVERITY.INFO"
                        [] OTHER -> "ValueError"
    /\ call.fn = "parse_output" =>
           (ret.error = "ValueError" <=>
               \E i \in 1..Len(call.output) :
                   /\ "severity" \in DOMAIN call.output[i]
                   /\ call.output[i].severity
                          \notin {"MAJOR", "NORMAL", "INFO"})

\* C10 witness: the wrong-case literal was rejected
C10_Witness ==
    /\ call.fn = "get_severity"
    /\ "severity" \in DOMAIN call.result
    /\ call.result.severity = "Info"
    /\ ret = "ValueError"

\* C11: the suppression of standard output is in effect only while a
\* discovery call is under way: before the first object is asked for, and
\* once the sequence has ended -- exhausted, returned at once, ended by a
\* load error or closed by the consumer -- it is not in effect.
C11_SuppressionReleased ==
    /\ pc \in {"created", "done", "raised", "closed"} => suppressed = FALSE
    /\ suppressed = TRUE => pc \in {"entered", "load", "members", "yielded"}

\* C11 witness: a call that had units loaded under suppression was ended by
\* a load error, and the suppression is gone
C11_Witness ==
    /\ pc = "raised"
    /\ error # "none"
    /\ \E k \in 1..Len(loads) : loads[k].suppressed = TRUE
    /\ suppressed = FALSE

\* C11 witness of the other ending: the same after exhaustion
C11_WitnessExhausted ==
    /\ pc = "done"
    /\ \E k \in 1..Len(loads) : loads[k].suppressed = TRUE
    /\ suppressed = FALSE

============================================================================
